---- MODULE Spec2Model ----
(***************************************************************************)
(* Model of protocol_graph.Protocol (src/protocol_graph/__init__.py): the  *)
(* spec parser (parse_spec), the line allocator (_process_field_list) and  *)
(* the ASCII renderer (__str__, _get_horizontal, _get_top_numbers).        *)
(*                                                                         *)
(* A Python str is a sequence of one-character strings; a field or         *)
(* fragment dict is a record [text, len, MF].                              *)
(***************************************************************************)
EXTENDS Integers, Sequences, FiniteSets, TLC

VARIABLES
    spec,                    \* the text handed to Protocol(spec)
    pc,                      \* "new" | "ready" | "raised" (ProtocolException) | "failed" (__str__ raised)
    hdr_char_start,
    hdr_char_end,
    hdr_char_fill_odd,
    hdr_char_fill_even,
    hdr_char_sep,
    bits_per_line,
    do_print_top_tens,
    do_print_top_units,
    do_left_to_right_print,
    field_list,
    fields_before,           \* field_list as the last __str__ call found it
    proto_fields,            \* what _process_field_list returned in that call
    owner,                   \* owner[j]: index of the field proto_fields[j] is a piece of
    lines,                   \* the list "lines" of that call
    kinds,                   \* kinds[n]: the statement that appended lines[n], and for which fragment
    result,                  \* what that call returned
    prev_result,             \* what the call before it returned (NoResult: none)
    error,                   \* "none" | "AssertionError" | "IndexError"
    frame                    \* the loop state of a running _process_field_list call

vars == << spec, pc, hdr_char_start, hdr_char_end, hdr_char_fill_odd,
           hdr_char_fill_even, hdr_char_sep, bits_per_line, do_print_top_tens,
           do_print_top_units, do_left_to_right_print, field_list,
           fields_before, proto_fields, owner, lines, kinds, result,
           prev_result, error, frame >>

(***************************************************************************)
(* Bounds of the input family.                                             *)
(***************************************************************************)
MaxFields == 2
MaxFieldLen == 4
MaxBits == 3
MaxOpts == 2

(***************************************************************************)
(* Python str and int helpers.                                             *)
(***************************************************************************)
Digits == <<"0", "1", "2", "3", "4", "5", "6", "7", "8", "9">>

IsDigit(c) == \E d \in 1..10 : Digits[d] = c

DigitVal(c) == (CHOOSE d \in 1..10 : Digits[d] = c) - 1

\* str.lower() on one character (the upper-case letters the inputs use)
LowerChar(c) ==
    CASE c = "B" -> "b"
      [] c = "N" -> "n"
      [] c = "S" -> "s"
      [] c = "X" -> "x"
      [] OTHER -> c

Lower(s) == [k \in 1..Len(s) |-> LowerChar(s[k])]

\* s[n:]
Drop(s, n) == IF n >= Len(s) THEN << >> ELSE SubSeq(s, n + 1, Len(s))

\* s[0:n] for n >= 0
Take(s, n) == IF n >= Len(s) THEN s ELSE SubSeq(s, 1, n)

\* c * n
Repeat(c, n) == [k \in 1..n |-> c]

\* (a + b) * n
RepeatPair(a, b, n) == [k \in 1..(2 * n) |-> IF k % 2 = 1 THEN a ELSE b]

Count(s, c) == Cardinality({k \in 1..Len(s) : s[k] = c})

FirstIndex(s, c) ==
    IF \E k \in 1..Len(s) : s[k] = c
    THEN CHOOSE k \in 1..Len(s) : s[k] = c /\ \A j \in 1..(k - 1) : s[j] # c
    ELSE 0

\* s.split(c)
RECURSIVE Split(_, _)
Split(s, c) ==
    LET k == FirstIndex(s, c)
    IN IF k = 0 THEN << s >>
       ELSE << SubSeq(s, 1, k - 1) >> \o Split(Drop(s, k), c)

\* c.join(parts)
RECURSIVE Join(_, _)
Join(parts, c) ==
    IF Len(parts) = 0 THEN << >>
    ELSE IF Len(parts) = 1 THEN parts[1]
    ELSE parts[1] \o << c >> \o Join(Tail(parts), c)

\* str(n) for n >= 0
RECURSIVE IntToStr(_)
IntToStr(n) ==
    IF n < 10 THEN << Digits[n + 1] >>
    ELSE IntToStr(n \div 10) \o << Digits[(n % 10) + 1] >>

\* int(s) succeeds: an optional sign and at least one digit (the inputs hold
\* no white space and no underscore, which int() would also take)
IntBody(s) == IF Len(s) > 0 /\ s[1] \in {"-", "+"} THEN Tail(s) ELSE s

IntOk(s) == Len(IntBody(s)) > 0 /\ \A k \in 1..Len(IntBody(s)) : IsDigit(IntBody(s)[k])

RECURSIVE NatVal(_)
NatVal(s) ==
    IF Len(s) = 0 THEN 0
    ELSE 10 * NatVal(SubSeq(s, 1, Len(s) - 1)) + DigitVal(s[Len(s)])

IntVal(s) == IF Len(s) > 0 /\ s[1] = "-" THEN 0 - NatVal(IntBody(s)) ELSE NatVal(IntBody(s))

\* str.center(text, width) with the fill character " "
Center(text, width) ==
    IF Len(text) >= width THEN text
    ELSE LET marg == width - Len(text)
             left == (marg \div 2) + ((marg % 2) * (width % 2))
         IN Repeat(" ", left) \o text \o Repeat(" ", marg - left)

(***************************************************************************)
(* Protocol.__init__ and Protocol.parse_spec                               *)
(***************************************************************************)
ph_num_per_bit == 1

DefaultBitsPerLine == 32

\* the attributes __init__ sets before it calls parse_spec
InitialObject ==
    [ hdr_char_start |-> "+", hdr_char_end |-> "+", hdr_char_fill_odd |-> "+",
      hdr_char_fill_even |-> "-", hdr_char_sep |-> "|",
      bits_per_line |-> DefaultBitsPerLine,
      do_print_top_tens |-> TRUE, do_print_top_units |-> TRUE,
      do_left_to_right_print |-> TRUE, field_list |-> << >> ]

KeyBits == <<"b", "i", "t", "s">>
KeyNumbers == <<"n", "u", "m", "b", "e", "r", "s">>
KeyOddchar == <<"o", "d", "d", "c", "h", "a", "r">>
KeyEvenchar == <<"e", "v", "e", "n", "c", "h", "a", "r">>
KeyStartchar == <<"s", "t", "a", "r", "t", "c", "h", "a", "r">>
KeyEndchar == <<"e", "n", "d", "c", "h", "a", "r">>
KeySepchar == <<"s", "e", "p", "c", "h", "a", "r">>

CharKeys == {KeyOddchar, KeyEvenchar, KeyStartchar, KeyEndchar, KeySepchar}

NumbersFalse == { <<"0">>, <<"n">>, <<"n", "o">>, <<"n", "o", "n", "e">>,
                  <<"f", "a", "l", "s", "e">> }

NumbersTrue == { <<"1">>, <<"y">>, <<"y", "e", "s">>, <<"n", "o", "n", "e">>,
                 <<"t", "r", "u", "e">> }

\* one item of the field part: text, bits = item.split(":"); bits = int(bits); bits > 0
FieldItemOk(item) ==
    LET parts == Split(item, ":")
    IN /\ Len(parts) = 2
       /\ IntOk(parts[2])
       /\ IntVal(parts[2]) > 0

FieldOfItem(item) ==
    LET parts == Split(item, ":")
    IN [text |-> parts[1], len |-> IntVal(parts[2]), MF |-> FALSE]

\* one option: TRUE when the body of the try block raises
OptRaises(opt) ==
    LET parts == Split(opt, "=")
    IN IF Len(parts) # 2 THEN TRUE
       ELSE LET var == Lower(parts[1])
                value == parts[2]
            IN IF var = KeyBits
               THEN ~IntOk(value) \/ IntVal(value) <= 0
               ELSE IF var = KeyNumbers
               THEN Lower(value) \notin NumbersFalse /\ Lower(value) \notin NumbersTrue
               ELSE IF var \in CharKeys
               THEN Len(value) > 1 \/ Len(value) <= 0
               ELSE FALSE

\* one option that does not raise: the attributes it assigns
ApplyOpt(o, opt) ==
    LET parts == Split(opt, "=")
        var == Lower(parts[1])
        value == parts[2]
    IN IF var = KeyBits
       THEN [o EXCEPT !.bits_per_line = IntVal(value)]
       ELSE IF var = KeyNumbers
       THEN IF Lower(value) \in NumbersFalse
            THEN [o EXCEPT !.do_print_top_tens = FALSE, !.do_print_top_units = FALSE]
            ELSE [o EXCEPT !.do_print_top_tens = TRUE, !.do_print_top_units = TRUE]
       ELSE IF var = KeyOddchar THEN [o EXCEPT !.hdr_char_fill_odd = value[1]]
       ELSE IF var = KeyEvenchar THEN [o EXCEPT !.hdr_char_fill_even = value[1]]
       ELSE IF var = KeyStartchar THEN [o EXCEPT !.hdr_char_start = value[1]]
       ELSE IF var = KeyEndchar THEN [o EXCEPT !.hdr_char_end = value[1]]
       ELSE IF var = KeySepchar THEN [o EXCEPT !.hdr_char_sep = value[1]]
       ELSE o

RECURSIVE ApplyOpts(_, _)
ApplyOpts(o, opts) ==
    IF Len(opts) = 0 THEN o ELSE ApplyOpts(ApplyOpt(o, Head(opts)), Tail(opts))

\* the two halves of the text: fields, and opts (HasOpts FALSE: opts is None)
HasOpts(s) == Count(s, "?") > 0

FieldsPart(s) == Split(s, "?")[1]

OptsPart(s) == Split(s, "?")[2]

\* parse_spec raises ProtocolException
ParseRaises(s) ==
    \/ Count(s, "?") > 1
    \/ \E k \in 1..Len(Split(FieldsPart(s), ",")) : ~FieldItemOk(Split(FieldsPart(s), ",")[k])
    \/ /\ HasOpts(s)
       /\ \E k \in 1..Len(Split(OptsPart(s), ",")) : OptRaises(Split(OptsPart(s), ",")[k])

\* the object parse_spec leaves when it returns
ParseSpec(s) ==
    LET items == Split(FieldsPart(s), ",")
        fl == [k \in 1..Len(items) |-> FieldOfItem(items[k])]
        o1 == [InitialObject EXCEPT !.field_list = fl]
    IN IF HasOpts(s) THEN ApplyOpts(o1, Split(OptsPart(s), ",")) ELSE o1

(***************************************************************************)
(* Protocol._process_field_list: the line allocator.  Its loop state is    *)
(* the record [field_list, new_fields, owner, bits_in_line, i]; i counts   *)
(* from 1.  The dicts of self.field_list are changed in place.             *)
(***************************************************************************)
AllocStart(fl) ==
    [field_list |-> fl, new_fields |-> << >>, owner |-> << >>, bits_in_line |-> 0, i |-> 1]

\* while i < len(self.field_list)
AllocRunning(st) == st.i <= Len(st.field_list)

\* available_in_line = self.bits_per_line - bits_in_line
AvailableInLine(bpl, bits) == bpl - bits

\* faulty variant: the test is off by one
FitsInLineOffByOne(available, field_len) == available >= field_len - 1

\* if available_in_line >= field_len
FitsInLine(available, field_len) == available >= field_len

\* faulty variant: the alignment test is left out
IsFullLinesAnywhere(bits, field_len, bpl) == field_len % bpl = 0

\* faulty variant: the test for a multiple of the line length is left out
IsFullLinesAnyLen(bits, field_len, bpl) == bits = 0

\* if bits_in_line==0 and field_len%self.bits_per_line==0
IsFullLines(bits, field_len, bpl) == bits = 0 /\ field_len % bpl = 0

\* if bits_in_line==self.bits_per_line: bits_in_line=0
WrapLine(bits, bpl) == IF bits = bpl THEN 0 ELSE bits

\* faulty variant: on a tie the text goes to the remainder
TextStaysOnLineStrict(available, field_len) == available > field_len - available

\* if available_in_line >= field_len-available_in_line
TextStaysOnLine(available, field_len) == available >= field_len - available

\* faulty variant: the two sizes of a split are exchanged
LinePieceWrongLen(field, available) ==
    [text |-> IF TextStaysOnLine(available, field.len) THEN field.text ELSE << >>,
     len |-> field.len - available, MF |-> TRUE]

\* faulty variant: the line-filling piece is not marked as having more fragments
LinePieceNoMF(field, available) ==
    [text |-> IF TextStaysOnLine(available, field.len) THEN field.text ELSE << >>,
     len |-> available, MF |-> FALSE]

\* the piece that fills the current line
LinePiece(field, available) ==
    [text |-> IF TextStaysOnLine(available, field.len) THEN field.text ELSE << >>,
     len |-> available, MF |-> TRUE]

\* a faulty variant: the length of the field is not reduced
RestOfFieldNoShrink(field, available) ==
    [text |-> IF TextStaysOnLine(available, field.len) THEN << >> ELSE field.text,
     len |-> field.len, MF |-> FALSE]

\* what is left of the field, written back into its dict
RestOfField(field, available) ==
    [text |-> IF TextStaysOnLine(available, field.len) THEN << >> ELSE field.text,
     len |-> field.len - available, MF |-> FALSE]

\* one iteration of the while loop
AllocStep(st, bpl) ==
    LET field == [st.field_list[st.i] EXCEPT !.MF = FALSE]
        fl == [st.field_list EXCEPT ![st.i] = field]
        available == AvailableInLine(bpl, st.bits_in_line)
    IN IF FitsInLine(available, field.len)
       THEN [field_list |-> fl,
             new_fields |-> Append(st.new_fields, field),
             owner |-> Append(st.owner, st.i),
             bits_in_line |-> WrapLine(st.bits_in_line + field.len, bpl),
             i |-> st.i + 1]
       ELSE IF IsFullLines(st.bits_in_line, field.len, bpl)
       THEN [field_list |-> fl,
             new_fields |-> Append(st.new_fields, field),
             owner |-> Append(st.owner, st.i),
             bits_in_line |-> 0,
             i |-> st.i + 1]
       ELSE [field_list |-> [fl EXCEPT ![st.i] = RestOfField(field, available)],
             new_fields |-> Append(st.new_fields, LinePiece(field, available)),
             owner |-> Append(st.owner, st.i),
             bits_in_line |-> 0,
             i |-> st.i]

RECURSIVE AllocLoop(_, _)
AllocLoop(st, bpl) == IF AllocRunning(st) THEN AllocLoop(AllocStep(st, bpl), bpl) ELSE st

\* the whole call: .new_fields is returned, .field_list is what self.field_list has become
ProcessFieldList(fl, bpl) == AllocLoop(AllocStart(fl), bpl)

(***************************************************************************)
(* Protocol._get_top_numbers, _get_horizontal, _get_separator              *)
(***************************************************************************)
Reverse(s) == [k \in 1..Len(s) |-> s[Len(s) + 1 - k]]

RECURSIVE Flatten(_)
Flatten(ss) == IF Len(ss) = 0 THEN << >> ELSE Head(ss) \o Flatten(Tail(ss))

\* the cells are appended when printing left to right, prepended otherwise
RulerRow(cells, ltr) == IF ltr THEN Flatten(cells) ELSE Flatten(Reverse(cells))

TensCell(n) ==
    IF IntToStr(n)[Len(IntToStr(n))] = "0"
    THEN Repeat(" ", ph_num_per_bit * 2 - 1) \o << IntToStr(n)[1] >>
    ELSE Repeat(" ", 2 * ph_num_per_bit)

UnitsCell(n) == Repeat(" ", ph_num_per_bit * 2 - 1) \o << IntToStr(n)[Len(IntToStr(n))] >>

\* the ruler text; << >> stands for None (the text is never empty otherwise)
GetTopNumbers(o) ==
    LET tens == IF o.do_print_top_tens
                THEN RulerRow([k \in 1..o.bits_per_line |-> TensCell(k - 1)],
                              o.do_left_to_right_print) \o << "\n" >>
                ELSE << >>
        units == IF o.do_print_top_units
                 THEN RulerRow([k \in 1..o.bits_per_line |-> UnitsCell(k - 1)],
                               o.do_left_to_right_print)
                 ELSE << >>
    IN tens \o units

GetHorizontal(o, width) ==
    IF width <= 0 THEN << >>
    ELSE IF o.do_left_to_right_print
    THEN LET b == RepeatPair(o.hdr_char_fill_even, o.hdr_char_fill_odd, width * ph_num_per_bit)
         IN << o.hdr_char_start >> \o Take(b, Len(b) - 1) \o << o.hdr_char_end >>
    ELSE LET d == Repeat(" ", 2 * (o.bits_per_line - width) * ph_num_per_bit)
             b == RepeatPair(o.hdr_char_fill_odd, o.hdr_char_fill_even, width * ph_num_per_bit)
         IN d \o << o.hdr_char_end >> \o Drop(b, 1) \o << o.hdr_char_start >>

GetSeparator(o) == o.hdr_char_sep

(***************************************************************************)
(* Protocol.__str__: the renderer.  Its loop state is the record           *)
(* [lines, kinds, bits_in_line, current_line, fields_done, p, error];      *)
(* p is the number of fragments already taken.                             *)
(***************************************************************************)
\* the character capacity the text is cut to
TextCapacity(field_len) == (field_len * 2 * ph_num_per_bit) - 1

\* the width of the cell the text is centered in
CellWidth(field_len) == (field_len * 2 * ph_num_per_bit) - 1

\* the width of the text row of a stacked full-width block
BlockCellWidth(o) == (o.bits_per_line * 2 * ph_num_per_bit) - 1

\* "If the field text is too long, we truncate it, and add a dot at the end"
Truncate(field_text, field_len) ==
    IF Len(field_text) > TextCapacity(field_len)
    THEN LET t == Take(field_text, TextCapacity(field_len))
         IN IF Len(t) > ph_num_per_bit THEN Take(t, Len(t) - 1) \o << "." >> ELSE t
    ELSE field_text

\* the border under a completed line whose last fragment has more fragments
\* and whose next fragment reaches under it
PartialBorder(o, field_len, next_len) ==
    LET ltr == o.do_left_to_right_print
        left0 == IF ltr
                 THEN GetHorizontal(o, o.bits_per_line - field_len)
                 ELSE Drop(GetHorizontal(o, o.bits_per_line - field_len),
                           field_len * 2 * ph_num_per_bit)
        line_left == IF Len(left0) = 0 THEN << o.hdr_char_start >> ELSE left0
        line_center ==
            IF next_len >= o.bits_per_line
            THEN Repeat(" ", 2 * field_len * ph_num_per_bit - 1)
            ELSE Repeat(" ", (2 * (next_len - (o.bits_per_line - field_len)) * ph_num_per_bit) - 1)
        line_right ==
            IF next_len >= o.bits_per_line
            THEN << o.hdr_char_end >>
            ELSE IF ltr
            THEN GetHorizontal(o, o.bits_per_line - next_len)
            ELSE Drop(GetHorizontal(o, o.bits_per_line - next_len),
                      next_len * 2 * ph_num_per_bit)
    IN IF ltr THEN line_left \o line_center \o line_right
       ELSE line_right \o line_center \o line_left

\* faulty variant: the comparison also takes a next fragment that ends
\* exactly where this one begins
NextReachesUnderOrMeets(o, field_len, next_len) == next_len >= o.bits_per_line - field_len

\* if proto_fields[p+1]['len'] > self.bits_per_line - field_len
NextReachesUnder(o, field_len, next_len) == next_len > o.bits_per_line - field_len

\* lines_to_print and central_line of a stacked full-width block
LinesToPrint(o, field_len) == ((field_len \div o.bits_per_line) * 2) - 1

CentralLine(o, field_len) == LinesToPrint(o, field_len) \div 2

\* row n (from 0) of a stacked full-width block
BlockRow(o, field_text, field_len, n) ==
    LET start_line == IF n % 2 = 1 THEN o.hdr_char_start ELSE o.hdr_char_sep
        end_line == IF n % 2 = 1 THEN o.hdr_char_end ELSE o.hdr_char_sep
    IN IF n = CentralLine(o, field_len)
       THEN << start_line >> \o Center(field_text, BlockCellWidth(o)) \o << end_line >>
       ELSE << start_line >> \o Repeat(" ", BlockCellWidth(o)) \o << end_line >>

\* all the lines the for loop appends for a stacked full-width block
BlockLines(o, field_text, field_len) ==
    [n \in 1..LinesToPrint(o, field_len) |-> BlockRow(o, field_text, field_len, n - 1)]
        \o (IF LinesToPrint(o, field_len) >= 1 THEN << GetHorizontal(o, o.bits_per_line) >> ELSE << >>)

Kind(k, p) == [kind |-> k, p |-> p]

RenderStart(o) ==
    LET numbers == GetTopNumbers(o)
    IN [lines |-> (IF Len(numbers) > 0 THEN << numbers >> ELSE << >>)
                     \o << GetHorizontal(o, o.bits_per_line) >>,
        kinds |-> (IF Len(numbers) > 0 THEN << Kind("numbers", 0) >> ELSE << >>)
                     \o << Kind("top", 0) >>,
        bits_in_line |-> 0, current_line |-> << >>, fields_done |-> 0, p |-> 0,
        error |-> "none"]

\* while p < len(proto_fields)-1, and no exception so far
RenderRunning(rs, pf) == rs.p < Len(pf) /\ rs.error = "none"

\* one iteration of the while loop
RenderStep(rs, pf, o) ==
    LET p == rs.p + 1
        field_len == pf[p].len
        field_mf == pf[p].MF
        field_text == Truncate(pf[p].text, field_len)
        ltr == o.do_left_to_right_print
        bpl == o.bits_per_line
    IN IF bpl - rs.bits_in_line >= field_len
       THEN LET cl0 == IF rs.bits_in_line = 0 THEN rs.current_line \o << GetSeparator(o) >>
                       ELSE rs.current_line
                cell == Center(field_text, CellWidth(field_len))
                cl1 == IF ltr THEN cl0 \o cell ELSE cell \o cl0
                cl2 == IF ltr THEN cl1 \o << GetSeparator(o) >> ELSE << GetSeparator(o) >> \o cl1
                bits == rs.bits_in_line + field_len
                done == rs.fields_done + 1
            IN IF bits = bpl
               THEN IF field_mf /\ p + 1 > Len(pf)
                    THEN [rs EXCEPT !.p = p, !.lines = Append(@, cl2),
                                    !.kinds = Append(@, Kind("row", p)),
                                    !.current_line = << >>, !.bits_in_line = 0,
                                    !.fields_done = done, !.error = "IndexError"]
                    ELSE LET partial == field_mf /\ NextReachesUnder(o, field_len, pf[p + 1].len)
                             border == IF partial
                                       THEN PartialBorder(o, field_len, pf[p + 1].len)
                                       ELSE GetHorizontal(o, bpl)
                         IN [rs EXCEPT !.p = p, !.lines = @ \o << cl2, border >>,
                                       !.kinds = @ \o << Kind("row", p),
                                                         Kind(IF partial THEN "partial" ELSE "border", p) >>,
                                       !.current_line = << >>, !.bits_in_line = 0,
                                       !.fields_done = done]
               ELSE IF done = Len(pf)
               THEN LET last == IF ltr THEN cl2
                                ELSE Repeat(" ", (bpl - bits) * 2 * ph_num_per_bit) \o cl2
                    IN [rs EXCEPT !.p = p, !.lines = @ \o << last, GetHorizontal(o, bits) >>,
                                  !.kinds = @ \o << Kind("lastrow", p), Kind("lastborder", p) >>,
                                  !.current_line = cl2, !.bits_in_line = bits,
                                  !.fields_done = done]
               ELSE [rs EXCEPT !.p = p, !.current_line = cl2, !.bits_in_line = bits,
                               !.fields_done = done]
       ELSE IF rs.bits_in_line = 0
       THEN IF field_len % bpl = 0
            THEN [rs EXCEPT !.p = p,
                            !.lines = @ \o BlockLines(o, field_text, field_len),
                            !.kinds = @ \o [n \in 1..LinesToPrint(o, field_len) |-> Kind("blockrow", p)]
                                        \o << Kind("blockborder", p) >>,
                            !.fields_done = @ + 1]
            ELSE [rs EXCEPT !.p = p]
       ELSE [rs EXCEPT !.p = p, !.error = "AssertionError"]

RECURSIVE RenderLoop(_, _, _)
RenderLoop(rs, pf, o) ==
    IF RenderRunning(rs, pf) THEN RenderLoop(RenderStep(rs, pf, o), pf, o) ELSE rs

\* the loop of __str__ over the fragments pf, to its end or to an exception
Render(pf, o) == RenderLoop(RenderStart(o), pf, o)

\* result = "\n".join(lines)
ResultOf(ls) == Join(ls, "\n")

(***************************************************************************)
(* The specs handed to the constructor.                                    *)
(***************************************************************************)
Names == { <<"a", "b">>, <<"a", "b", "c", "d">> }

FieldToken(name, n) == name \o << ":" >> \o IntToStr(n)

FieldSeqs == UNION { [1..n -> Names \X (1..MaxFieldLen)] : n \in 1..MaxFields }

FieldsText(fs) == Join([k \in 1..Len(fs) |-> FieldToken(fs[k][1], fs[k][2])], ",")

\* start, end, fill and separator characters that all differ
CharOpts == <<",">> \o KeyStartchar \o <<"=", "<", ",">> \o KeyEndchar \o <<"=", ">">>

\* valid specs: every field list within the bounds, on lines of 1..MaxBits bits
LayoutSpecs ==
    { FieldsText(fs) \o << "?" >> \o KeyBits \o << "=" >> \o IntToStr(b) \o CharOpts :
        fs \in FieldSeqs, b \in 1..MaxBits }

OptTokens ==
    { KeyBits \o <<"=", "2">>,
      <<"B", "i", "t", "S", "=", "1">>,
      KeyBits \o <<"=", "0">>,
      KeyBits \o <<"=", "x">>,
      KeyNumbers \o <<"=", "N", "o">>,
      KeyNumbers \o <<"=", "n", "o", "n", "e">>,
      KeyNumbers \o <<"=", "y", "e", "s">>,
      KeyNumbers \o <<"=", "x">>,
      KeySepchar \o <<"=", "!">>,
      KeyEndchar \o <<"=">>,
      <<"x", "=", "1">>,
      <<"x">> }

OptSeqs == UNION { [1..n -> OptTokens] : n \in 1..MaxOpts }

GoodFields == <<"a", "b", ":", "2", ",", "c", ":", "1">>

\* specs that exercise the option part, and malformed specs
OptionSpecs ==
    { GoodFields \o << "?" >> \o Join(os, ",") : os \in OptSeqs }
      \cup { GoodFields,
             GoodFields \o << "?" >>,
             GoodFields \o <<"?", "x", "=", "1", "?", "x", "=", "1">>,
             << >>,
             <<"a", "b">>,
             <<"a", "b", ":", "0">>,
             <<"a", "b", ":", "-", "1">>,
             <<"a", "b", ":", "x">>,
             <<"a", ":", "1", ":", "2">>,
             <<"a", ":", "1", ",">>,
             <<"?">> \o KeyBits \o <<"=", "2">> }

Specs == LayoutSpecs \cup OptionSpecs

(***************************************************************************)
(* The program: Protocol(spec), then str() calls on the object; a caller   *)
(* may set the public attribute do_left_to_right_print between calls.      *)
(***************************************************************************)
NoResult == << >>

Self ==
    [ hdr_char_start |-> hdr_char_start, hdr_char_end |-> hdr_char_end,
      hdr_char_fill_odd |-> hdr_char_fill_odd, hdr_char_fill_even |-> hdr_char_fill_even,
      hdr_char_sep |-> hdr_char_sep, bits_per_line |-> bits_per_line,
      do_print_top_tens |-> do_print_top_tens, do_print_top_units |-> do_print_top_units,
      do_left_to_right_print |-> do_left_to_right_print, field_list |-> field_list ]

Init ==
    /\ spec \in Specs
    /\ pc = "new"
    /\ hdr_char_start = InitialObject.hdr_char_start
    /\ hdr_char_end = InitialObject.hdr_char_end
    /\ hdr_char_fill_odd = InitialObject.hdr_char_fill_odd
    /\ hdr_char_fill_even = InitialObject.hdr_char_fill_even
    /\ hdr_char_sep = InitialObject.hdr_char_sep
    /\ bits_per_line = InitialObject.bits_per_line
    /\ do_print_top_tens = InitialObject.do_print_top_tens
    /\ do_print_top_units = InitialObject.do_print_top_units
    /\ do_left_to_right_print = InitialObject.do_left_to_right_print
    /\ field_list = InitialObject.field_list
    /\ fields_before = << >>
    /\ proto_fields = << >>
    /\ owner = << >>
    /\ lines = << >>
    /\ kinds = << >>
    /\ result = NoResult
    /\ prev_result = NoResult
    /\ error = "none"
    /\ frame = AllocStart(<< >>)

\* Protocol.__init__ -> parse_spec: the object, or ProtocolException
parse_spec ==
    /\ pc = "new"
    /\ IF ParseRaises(spec)
       THEN /\ pc' = "raised"
            /\ UNCHANGED << hdr_char_start, hdr_char_end, hdr_char_fill_odd,
                            hdr_char_fill_even, hdr_char_sep, bits_per_line,
                            do_print_top_tens, do_print_top_units,
                            do_left_to_right_print, field_list >>
       ELSE LET o == ParseSpec(spec)
            IN /\ pc' = "ready"
               /\ hdr_char_start' = o.hdr_char_start
               /\ hdr_char_end' = o.hdr_char_end
               /\ hdr_char_fill_odd' = o.hdr_char_fill_odd
               /\ hdr_char_fill_even' = o.hdr_char_fill_even
               /\ hdr_char_sep' = o.hdr_char_sep
               /\ bits_per_line' = o.bits_per_line
               /\ do_print_top_tens' = o.do_print_top_tens
               /\ do_print_top_units' = o.do_print_top_units
               /\ do_left_to_right_print' = o.do_left_to_right_print
               /\ field_list' = o.field_list
    /\ UNCHANGED << spec, fields_before, proto_fields, owner, lines, kinds, result,
                    prev_result, error, frame >>

\* Protocol.__str__: one whole call
str ==
    /\ pc = "ready"
    /\ LET alloc == ProcessFieldList(field_list, bits_per_line)
           rs == Render(alloc.new_fields, Self)
       IN /\ fields_before' = field_list
          /\ field_list' = alloc.field_list
          /\ proto_fields' = alloc.new_fields
          /\ owner' = alloc.owner
          /\ lines' = rs.lines
          /\ kinds' = rs.kinds
          /\ error' = rs.error
          /\ result' = IF rs.error = "none" THEN ResultOf(rs.lines) ELSE NoResult
          /\ prev_result' = result
          /\ pc' = IF rs.error = "none" THEN "ready" ELSE "failed"
    /\ UNCHANGED << spec, hdr_char_start, hdr_char_end, hdr_char_fill_odd,
                    hdr_char_fill_even, hdr_char_sep, bits_per_line, do_print_top_tens,
                    do_print_top_units, do_left_to_right_print, frame >>

\* a caller assigns do_left_to_right_print; what the last str() call returned
\* is dropped, the next call is no repetition of it
set_left_to_right_print ==
    /\ pc = "ready"
    /\ do_left_to_right_print' = ~do_left_to_right_print
    /\ fields_before' = << >>
    /\ proto_fields' = << >>
    /\ owner' = << >>
    /\ lines' = << >>
    /\ kinds' = << >>
    /\ result' = NoResult
    /\ prev_result' = NoResult
    /\ UNCHANGED << spec, pc, hdr_char_start, hdr_char_end, hdr_char_fill_odd,
                    hdr_char_fill_even, hdr_char_sep, bits_per_line, do_print_top_tens,
                    do_print_top_units, field_list, error, frame >>

Next == parse_spec \/ str \/ set_left_to_right_print

Spec == Init /\ [][Next]_vars

(***************************************************************************)
(* _process_field_list one loop iteration at a time: the call is entered,  *)
(* the while loop runs an iteration per step, and the call returns when    *)
(* the loop condition fails.  A call that has been entered keeps running.  *)
(***************************************************************************)
\* the call is entered: new_fields=[], bits_in_line=0, i=0
process_begin ==
    /\ pc = "ready"
    /\ pc' = "alloc"
    /\ frame' = AllocStart(field_list)
    /\ fields_before' = field_list
    /\ UNCHANGED << spec, hdr_char_start, hdr_char_end, hdr_char_fill_odd,
                    hdr_char_fill_even, hdr_char_sep, bits_per_line, do_print_top_tens,
                    do_print_top_units, do_left_to_right_print, field_list,
                    proto_fields, owner, lines, kinds, result, prev_result, error >>

\* one iteration of the while loop; self.field_list is written as it goes
process_step ==
    /\ pc = "alloc"
    /\ AllocRunning(frame)
    /\ frame' = AllocStep(frame, bits_per_line)
    /\ field_list' = frame'.field_list
    /\ UNCHANGED << spec, pc, hdr_char_start, hdr_char_end, hdr_char_fill_odd,
                    hdr_char_fill_even, hdr_char_sep, bits_per_line, do_print_top_tens,
                    do_print_top_units, do_left_to_right_print, fields_before,
                    proto_fields, owner, lines, kinds, result, prev_result, error >>

\* return new_fields
process_return ==
    /\ pc = "alloc"
    /\ ~AllocRunning(frame)
    /\ pc' = "ready"
    /\ proto_fields' = frame.new_fields
    /\ owner' = frame.owner
    /\ frame' = AllocStart(<< >>)
    /\ UNCHANGED << spec, hdr_char_start, hdr_char_end, hdr_char_fill_odd,
                    hdr_char_fill_even, hdr_char_sep, bits_per_line, do_print_top_tens,
                    do_print_top_units, do_left_to_right_print, field_list,
                    fields_before, lines, kinds, result, prev_result, error >>

NextAlloc == parse_spec \/ process_begin \/ process_step \/ process_return

SpecAlloc ==
    Init /\ [][NextAlloc]_vars /\ WF_vars(process_step) /\ WF_vars(process_return)

(***************************************************************************)
(* Properties.  They speak of the last __str__ call: fields_before is the  *)
(* field list it was given, proto_fields the fragments the allocator       *)
(* returned, owner[j] the field fragment j was cut from.                   *)
(***************************************************************************)
Rendered == Len(lines) > 0

RECURSIVE SumLens(_)
SumLens(fs) == IF Len(fs) = 0 THEN 0 ELSE Head(fs).len + SumLens(Tail(fs))

\* the fragments cut from field n, in order
PiecesOf(n) ==
    LET RECURSIVE Pick(_)
        Pick(j) == IF j > Len(proto_fields) THEN << >>
                   ELSE (IF owner[j] = n THEN << proto_fields[j] >> ELSE << >>) \o Pick(j + 1)
    IN Pick(1)

\* the bit counter after the first j fragments, wrapping at bpl; a fragment
\* wider than the rest of its line is k whole lines when it starts at counter
\* 0 with width k*bpl, and otherwise straddles a line boundary: -1
RECURSIVE CounterAfter(_, _, _)
CounterAfter(pf, j, bpl) ==
    IF j = 0 THEN 0
    ELSE LET c == CounterAfter(pf, j - 1, bpl)
             w == pf[j].len
         IN IF c < 0 THEN 0 - 1
            ELSE IF w <= bpl - c THEN (c + w) % bpl
            ELSE IF c = 0 /\ w % bpl = 0 THEN 0
            ELSE 0 - 1

\* C1: two consecutive __str__ calls on the same object, nothing in between,
\* return the same text.
C1_RenderTwiceSame ==
    (pc = "ready" /\ prev_result # NoResult /\ result # NoResult) => result = prev_result

\* the option part holds a well-formed key=value token whose key, lower-cased,
\* is none of the seven known keys
KnownKeys == {KeyBits, KeyNumbers} \cup CharKeys

HasUnknownKey(s) ==
    /\ Count(s, "?") = 1
    /\ \E k \in 1..Len(Split(Split(s, "?")[2], ",")) :
          LET tok == Split(Split(s, "?")[2], ",")[k]
          IN /\ Count(tok, "=") = 1
             /\ Lower(Split(tok, "=")[1]) \notin KnownKeys

\* C2: a spec with an unknown option key is refused: the constructor raises
\* ProtocolException and no Protocol object comes to exist.
C2_UnknownKeyRaises == HasUnknownKey(spec) => pc \in {"new", "raised"}

\* C3: no __str__ call on a parsed object raises, the first or a repeated one:
\* the assert(False) branch is not reached, and a fragment with MF set always
\* has a fragment after it for the look-ahead proto_fields[p+1].
C3_RenderNeverFails ==
    /\ error = "none"
    /\ pc # "failed"
    /\ \A j \in 1..Len(proto_fields) : proto_fields[j].MF => j + 1 <= Len(proto_fields)

C3_Witness ==
    /\ pc = "ready"
    /\ prev_result # NoResult
    /\ result # NoResult
    /\ Len(fields_before) >= 2
    /\ \E j \in 1..Len(proto_fields) :
          proto_fields[j].MF /\ CounterAfter(proto_fields, j - 1, bits_per_line) > 0

\* C4: the fragments of one allocator run partition the field list it was
\* given, in order: the fragments of each field are consecutive, their widths
\* add up to the length the field had when the run began, and so the widths of
\* all fragments add up to the lengths of all fields.
C4_FragmentsPartitionFields ==
    Rendered =>
        /\ Len(owner) = Len(proto_fields)
        /\ \A j \in 1..Len(owner) : owner[j] \in 1..Len(fields_before)
        /\ \A j \in 1..(Len(owner) - 1) : owner[j] <= owner[j + 1]
        /\ \A n \in 1..Len(fields_before) :
              /\ Len(PiecesOf(n)) >= 1
              /\ SumLens(PiecesOf(n)) = fields_before[n].len
        /\ \A j \in 1..Len(proto_fields) : proto_fields[j].len > 0
        /\ SumLens(proto_fields) = SumLens(fields_before)

C4_Witness ==
    /\ Rendered
    /\ Len(fields_before) >= 2
    /\ \E n \in 1..Len(fields_before) : Len(PiecesOf(n)) >= 3

\* C5: no fragment straddles a printed-line boundary: walking the fragments
\* with a bit counter that wraps at bits_per_line, every fragment fits in the
\* rest of its line or is a run of whole lines begun at counter 0, so every
\* printed line but the last is filled exactly.
C5_NoFragmentStraddlesLine ==
    Rendered =>
        \A j \in 1..Len(proto_fields) : CounterAfter(proto_fields, j, bits_per_line) >= 0

C5_Witness ==
    /\ Rendered
    /\ \E j \in 1..Len(proto_fields) :
          /\ proto_fields[j].MF
          /\ CounterAfter(proto_fields, j - 1, bits_per_line) > 0
    /\ CounterAfter(proto_fields, Len(proto_fields), bits_per_line) > 0

\* C6 as stated: every fragment is at most bits_per_line wide.
C6_FragmentWithinLine ==
    Rendered => \A j \in 1..Len(proto_fields) : proto_fields[j].len <= bits_per_line

\* C6 amended: every fragment is at most bits_per_line wide, except a
\* full-width multi-line fragment: one that starts at line counter 0 and is
\* k*bits_per_line wide with k >= 2.
C6_FragmentWithinLineOrFullLines ==
    Rendered =>
        \A j \in 1..Len(proto_fields) :
            \/ proto_fields[j].len <= bits_per_line
            \/ /\ CounterAfter(proto_fields, j - 1, bits_per_line) = 0
               /\ proto_fields[j].len % bits_per_line = 0
               /\ proto_fields[j].len >= 2 * bits_per_line

C6_Witness ==
    /\ Rendered
    /\ \E j \in 1..Len(proto_fields) :
          /\ proto_fields[j].len >= 2 * bits_per_line
          /\ CounterAfter(proto_fields, j - 1, bits_per_line) = 0
    /\ \E j \in 1..Len(proto_fields) : proto_fields[j].len < bits_per_line

\* C10: a fragment has MF set exactly when the next fragment is cut from the
\* same field; a fragment with MF set ends on a line boundary and fills the
\* rest of its line.
C10_MFIffFieldContinues ==
    Rendered =>
        \A j \in 1..Len(proto_fields) :
            /\ proto_fields[j].MF <=> (j < Len(proto_fields) /\ owner[j + 1] = owner[j])
            /\ proto_fields[j].MF =>
                  /\ CounterAfter(proto_fields, j, bits_per_line) = 0
                  /\ proto_fields[j].len
                        = bits_per_line - CounterAfter(proto_fields, j - 1, bits_per_line)

C10_Witness ==
    /\ Rendered
    /\ \E j \in 1..(Len(proto_fields) - 2) :
          /\ proto_fields[j].MF /\ proto_fields[j + 1].MF /\ ~proto_fields[j + 2].MF
          /\ owner[j] = owner[j + 2]
    /\ \E j \in 1..Len(proto_fields) : ~proto_fields[j].MF /\ Len(PiecesOf(owner[j])) = 1

\* the text __str__ prints for fragment j, the bits its cell spans in one
\* printed row, and the characters that cell holds
PrintedText(j) == Truncate(proto_fields[j].text, proto_fields[j].len)

CellBits(j) ==
    IF proto_fields[j].len <= bits_per_line THEN proto_fields[j].len ELSE bits_per_line

CellChars(j) == 2 * CellBits(j) - 1

GridChars == 2 * bits_per_line + 1

\* C7: the text printed for a fragment, the text row of a stacked full-width
\* block included, has at most as many characters as its cell (2*bits-1), so
\* no printed row is wider than the grid; a label longer than a cell of more
\* than one character is printed ending in ".".
C7_TextFitsCell ==
    Rendered =>
        /\ \A j \in 1..Len(proto_fields) :
              /\ Len(PrintedText(j)) <= CellChars(j)
              /\ (Len(proto_fields[j].text) > CellChars(j) /\ CellChars(j) > 1)
                    => PrintedText(j)[Len(PrintedText(j))] = "."
        /\ \A n \in 1..Len(lines) : kinds[n].kind # "numbers" => Len(lines[n]) <= GridChars

\* the rendering of the fragments proto_fields in one direction
RenderedAs(ltr) == Render(proto_fields, [Self EXCEPT !.do_left_to_right_print = ltr])

\* a row set against the left edge, filled to the width of the grid
PadRight(row) == row \o Repeat(" ", GridChars - Len(row))

\* the mirror image of a border row: its characters in reverse order, so the
\* start and end characters exchange sides
MirrorBorder(row) == Reverse(PadRight(row))

\* the mirror image of a content row: its cells and separators in reverse
\* order, set against the right edge of the grid
MirrorCells(row) ==
    Repeat(" ", GridChars - Len(row))
        \o Join(Reverse(Split(row, hdr_char_sep)), hdr_char_sep)

\* the mirror image of a row of a stacked block: cap, cell, cap in reverse order
MirrorBlockRow(row) ==
    << row[Len(row)] >> \o SubSeq(row, 2, Len(row) - 1) \o << row[1] >>

\* the mirror image of the ruler: the two-character cells of each of its rows
\* in reverse order
MirrorRulerRow(row) ==
    Flatten(Reverse([c \in 1..(Len(row) \div 2) |-> SubSeq(row, 2 * c - 1, 2 * c)]))

MirrorRuler(numbers) ==
    LET rows == Split(numbers, "\n")
    IN Join([k \in 1..Len(rows) |-> MirrorRulerRow(rows[k])], "\n")

MirrorRow(row, kind) ==
    IF kind = "numbers" THEN MirrorRuler(row)
    ELSE IF kind \in {"row", "lastrow"} THEN MirrorCells(row)
    ELSE IF kind = "blockrow" THEN MirrorBlockRow(row)
    ELSE MirrorBorder(row)

\* C8: printing right to left gives, line for line, the mirror image of
\* printing left to right: content rows have their cells and separators in
\* reverse order, border rows and the rows of a stacked block have their
\* segments reversed, the start and end characters exchanging sides.
C8_RightToLeftIsMirror ==
    Rendered =>
        /\ Len(RenderedAs(FALSE).lines) = Len(RenderedAs(TRUE).lines)
        /\ \A n \in 1..Len(RenderedAs(TRUE).lines) :
              RenderedAs(FALSE).lines[n]
                 = MirrorRow(RenderedAs(TRUE).lines[n], RenderedAs(TRUE).kinds[n].kind)

\* the indices of the lines printed for fragment j
RowsOf(j) == { n \in 1..Len(lines) : kinds[n].p = j }

FirstRowOf(j) == CHOOSE n \in RowsOf(j) : \A m \in RowsOf(j) : n <= m

Blank(s) == \A k \in 1..Len(s) : s[k] = " "

\* the first fragment of field n
FirstPieceOf(n) == CHOOSE j \in 1..Len(owner) : owner[j] = n /\ \A m \in 1..(j - 1) : owner[m] # n

\* C9: a field of k*bits_per_line bits, k >= 2, that starts at line counter 0
\* is one unsplit fragment, printed as 2k-1 rows of the width of the grid and
\* then one full border: the rows are capped by the separator and by the
\* start/end characters in turn and are blank, but for the middle row (k-1),
\* which holds the centered text.
C9_FullWidthBlock ==
    Rendered =>
        /\ \A n \in 1..Len(fields_before) :
              ( /\ fields_before[n].len % bits_per_line = 0
                /\ fields_before[n].len >= 2 * bits_per_line
                /\ CounterAfter(proto_fields, FirstPieceOf(n) - 1, bits_per_line) = 0 )
              => /\ Len(PiecesOf(n)) = 1
                 /\ PiecesOf(n)[1].len = fields_before[n].len
                 /\ PiecesOf(n)[1].text = fields_before[n].text
        /\ \A j \in 1..Len(proto_fields) :
              ( /\ proto_fields[j].len % bits_per_line = 0
                /\ proto_fields[j].len >= 2 * bits_per_line )
              => LET k == proto_fields[j].len \div bits_per_line
                     first == FirstRowOf(j)
                 IN /\ RowsOf(j) = first..(first + 2 * k - 1)
                    /\ \A m \in 0..(2 * k - 2) :
                          LET row == lines[first + m]
                              inner == SubSeq(row, 2, Len(row) - 1)
                          IN /\ Len(row) = GridChars
                             /\ row[1] = IF m % 2 = 1 THEN hdr_char_start ELSE hdr_char_sep
                             /\ row[Len(row)] = IF m % 2 = 1 THEN hdr_char_end ELSE hdr_char_sep
                             /\ IF m = k - 1
                                THEN inner = Center(PrintedText(j), GridChars - 2)
                                ELSE Blank(inner)
                    /\ lines[first + 2 * k - 1] = GetHorizontal(Self, bits_per_line)

\* a border over n >= 1 bits, read from the side of bit 0: the start
\* character, 2n-1 fill characters beginning and ending with the even one, the
\* end character
BorderOver(n) ==
    << hdr_char_start >>
        \o [k \in 1..(2 * n - 1) |-> IF k % 2 = 1 THEN hdr_char_fill_even ELSE hdr_char_fill_odd]
        \o << hdr_char_end >>

MinOf(a, b) == IF a <= b THEN a ELSE b

\* the border C11 describes under a line completed by a fragment of w bits with
\* MF set, the next fragment being nl bits wide, read from the side of bit 0
BorderUnder(w, nl) ==
    IF nl <= bits_per_line - w THEN BorderOver(bits_per_line)
    ELSE (IF bits_per_line - w = 0 THEN << hdr_char_start >> ELSE BorderOver(bits_per_line - w))
            \o Repeat(" ", 2 * (MinOf(nl, bits_per_line) - (bits_per_line - w)) - 1)
            \o (IF nl >= bits_per_line THEN << hdr_char_end >> ELSE BorderOver(bits_per_line - nl))

\* C11: under a line completed by a fragment of w bits with MF set, the next
\* fragment being L bits wide, the border is a full border if L <= bpl-w, and
\* otherwise, in 2*bpl+1 characters, a border over the first bpl-w bits (the
\* start character alone for 0 bits), 2*(min(L,bpl)-(bpl-w))-1 spaces, and a
\* border over the last bpl-L bits (the end character alone if L >= bpl);
\* printed right to left it reads in reverse.
C11_BorderUnderContinuedField ==
    Rendered =>
        \A j \in 1..(Len(proto_fields) - 1) :
            proto_fields[j].MF =>
                LET under == lines[FirstRowOf(j) + 1]
                    want == BorderUnder(proto_fields[j].len, proto_fields[j + 1].len)
                IN /\ Cardinality(RowsOf(j)) = 2
                   /\ Len(under) = GridChars
                   /\ under = IF do_left_to_right_print THEN want ELSE Reverse(want)

\* a partial border with a border piece on either side of the gap
C11_Witness ==
    /\ Rendered
    /\ \E j \in 1..(Len(proto_fields) - 1) :
          /\ proto_fields[j].MF
          /\ proto_fields[j].len < bits_per_line
          /\ proto_fields[j + 1].len < bits_per_line
          /\ proto_fields[j + 1].len > bits_per_line - proto_fields[j].len
          /\ kinds[FirstRowOf(j) + 1].kind = "partial"

\* the piece of a split field that carries the name: the first piece at least
\* as wide as all the pieces after it together, and the last piece if none is
CarrierOf(pieces) ==
    CHOOSE c \in 1..Len(pieces) :
        /\ c = Len(pieces) \/ pieces[c].len >= SumLens(SubSeq(pieces, c + 1, Len(pieces)))
        /\ \A j \in 1..(c - 1) :
              pieces[j].len < SumLens(SubSeq(pieces, j + 1, Len(pieces)))

\* C12: of the fragments of a field with a non-empty name exactly one carries
\* the name and the others have empty text: at each split the name goes to the
\* line-filling piece when remaining >= width-remaining, and stays with the
\* remainder otherwise, however often the remainder is split again.
C12_OneFragmentCarriesName ==
    Rendered =>
        \A n \in 1..Len(fields_before) :
            fields_before[n].text # << >> =>
                \A j \in 1..Len(PiecesOf(n)) :
                    PiecesOf(n)[j].text
                        = IF j = CarrierOf(PiecesOf(n)) THEN fields_before[n].text ELSE << >>

\* a named field cut into three pieces, the name on the middle one
C12_Witness ==
    /\ Rendered
    /\ \E n \in 1..Len(fields_before) :
          /\ fields_before[n].text # << >>
          /\ Len(PiecesOf(n)) >= 3
          /\ CarrierOf(PiecesOf(n)) = 2

(***************************************************************************)
(* Termination of the loop of _process_field_list                          *)
(***************************************************************************)
\* the fragments new_fields holds so far that were cut from the field at index i
PiecesSoFar(i) == Cardinality({ k \in 1..Len(frame.owner) : frame.owner[k] = i })

\* the iteration moved on to the next field
Advances == frame'.i = frame.i + 1

\* the iteration left the index alone and put a shorter, positive length in the field
Shrinks ==
    /\ frame'.i = frame.i
    /\ frame'.field_list[frame.i].len > 0
    /\ frame'.field_list[frame.i].len < frame.field_list[frame.i].len

\* C13: for every field list of positive lengths and every positive bits_per_line
\* the loop of _process_field_list terminates: every iteration either advances
\* to the next field or replaces the current field by a strictly shorter, still
\* positive remainder; a field that was n bits long when the call began is cut
\* at most n times (the pieces cut so far plus the bits left never exceed n);
\* and a call that has been entered reaches the end of the field list and returns.
C13_AllocatorTerminates ==
    /\ [][process_step => (Advances \/ Shrinks)]_vars
    /\ [](pc = "alloc" =>
            \A i \in 1..Len(frame.field_list) :
                /\ frame.field_list[i].len > 0
                /\ i >= frame.i => PiecesSoFar(i) + frame.field_list[i].len
                                      <= fields_before[i].len)
    /\ (pc = "alloc") ~> (pc = "alloc" /\ ~AllocRunning(frame))
    /\ (pc = "alloc") ~> (pc = "ready")

\* the loop is about to process, for the third time, a field it has cut twice
C13_Witness ==
    /\ pc = "alloc"
    /\ AllocRunning(frame)
    /\ bits_per_line > 0
    /\ PiecesSoFar(frame.i) = 2
    /\ frame.field_list[frame.i].len > 0
    /\ frame.field_list[frame.i].len < fields_before[frame.i].len

====
